---- MODULE Spec2Model ----
(***************************************************************************)
(* PayTabs payment processor plugin: the merchant notification handler     *)
(* (paytabs/views.py, PayTabsResponseView.post) as a step machine over the *)
(* host's database, and the processor's two functions                      *)
(* (paytabs/processors.py, get_transaction_parameters and                  *)
(* handle_processor_response) applied to bounded inputs.                   *)
(***************************************************************************)
EXTENDS Integers, Sequences, FiniteSets, TLC

VARIABLES
    pc,                 \* position of the request inside post()
    POST,               \* request.POST of the notification being handled
    transaction_id,     \* local of post()
    basket,             \* local of post(): a basket id, or NoBasket for None
    verification_data,  \* local of post(): the dict _verify_response returned
    exit,               \* how the first try block was left, pending its finally
    raised,             \* whether handle_payment raised inside the atomic block
    savepoint,          \* the payments table when transaction.atomic() was entered
    response,           \* what post() answered
    events,             \* the collaborator calls of this request, in order
    audit,              \* the processor response records (append-only table)
    payments,           \* the payment records handle_payment writes
    orders,             \* the baskets an order was created for
    received,           \* notifications received so far
    call                \* the last call of a processor function, with its result

vars == <<pc, POST, transaction_id, basket, verification_data, exit, raised,
          savepoint, response, events, audit, payments, orders, received, call>>

viewVars == <<pc, POST, transaction_id, basket, verification_data, exit, raised,
              savepoint, response, events, audit, payments, orders, received>>

----------------------------------------------------------------------------
(* Bounds *)

\* baskets 1..NumBaskets exist in the database
NumBaskets == 2

\* notifications handled one after the other in a behaviour
MaxNotifications == 2

----------------------------------------------------------------------------
(* Python values *)

\* a key a dict does not hold: d.get(k) is None, d[k] raises KeyError
NoKey == "<missing>"

\* basket = None
NoBasket == 0

\* transaction_id = 'Unknown'
UnknownTransaction == "Unknown"

\* the codes post() accepts from the verify call
PAYTABS_SUCCESS_CODES_WITH_481 == {"100", "111", "481"}
PAYTABS_SUCCESS_CODES == {"100", "111"}

\* verification_data = {}
EmptyDict ==
    [response_code |-> NoKey, reference_no |-> NoKey, transaction_id |-> NoKey,
     amount |-> NoKey, currency |-> NoKey, card_first_six_digits |-> NoKey,
     card_last_four_digits |-> NoKey, card_brand |-> NoKey]

\* the rows of Basket.objects
Baskets == 1..NumBaskets

Digits == <<"1", "2", "3", "4", "5", "6", "7", "8", "9">>

\* basket.order_number of basket k under the host's convention
OrderNumber(k) == "EDX-10000" \o Digits[k]

\* a basket id as Python holds it: an int, or a str of characters
IntId(n) == [t |-> "int", n |-> n, s |-> <<>>]
StrId(s) == [t |-> "str", n |-> 0, s |-> s]

\* the reference numbers a verify response may carry: the order numbers of
\* the existing baskets and of one basket that does not exist, and three
\* whose basket id is empty or not a number
ReferenceNumbers ==
    {OrderNumber(k) : k \in 1..(NumBaskets + 1)}
        \cup {"EDX-100000", "EDX-", "EDX-abc", "EDX-2"}

\* OrderNumberGenerator().basket_id(reference_number)
BasketIdOf(reference_number) ==
    IF \E k \in 1..(NumBaskets + 1) : OrderNumber(k) = reference_number
    THEN IntId(CHOOSE k \in 1..(NumBaskets + 1) : OrderNumber(k) = reference_number)
    ELSE CASE reference_number = "EDX-100000" -> IntId(0)
           [] reference_number = "EDX-" -> StrId(<<>>)
           [] reference_number = "EDX-abc" -> StrId(<<"a", "b", "c">>)
           [] OTHER -> StrId(<<"2">>)

\* not basket_id
Falsy(id) == IF id.t = "int" THEN id.n = 0 ELSE id.s = <<>>

DigitValue(c) ==
    CASE c = "0" -> 0 [] c = "1" -> 1 [] c = "2" -> 2 [] c = "3" -> 3
      [] c = "4" -> 4 [] c = "5" -> 5 [] c = "6" -> 6 [] c = "7" -> 7
      [] c = "8" -> 8 [] c = "9" -> 9 [] OTHER -> -1

RECURSIVE ParseDigits(_, _)
ParseDigits(s, acc) ==
    IF s = <<>> THEN acc ELSE ParseDigits(Tail(s), 10 * acc + DigitValue(Head(s)))

\* int(basket_id): err stands for ValueError
PyInt(id) ==
    IF id.t = "int" THEN [err |-> FALSE, n |-> id.n]
    ELSE IF id.s = <<>> \/ \E i \in 1..Len(id.s) : DigitValue(id.s[i]) < 0
         THEN [err |-> TRUE, n |-> 0]
         ELSE [err |-> FALSE, n |-> ParseDigits(id.s, 0)]

\* PayTabsResponseView._get_basket: the basket, or None
GetBasket(basket_id) ==
    IF Falsy(basket_id) THEN NoBasket
    ELSE LET r == PyInt(basket_id)
         IN  IF r.err THEN NoBasket                 \* ValueError
             ELSE IF r.n \in Baskets THEN r.n
             ELSE NoBasket                          \* ObjectDoesNotExist

----------------------------------------------------------------------------
(* paytabs/processors.py *)

\* response.get(key, default)
Get(d, key, default) == IF d[key] = NoKey THEN default ELSE d[key]

\* what a call of a processor function gives: a return value or an exception
Returned(fields) == [kind |-> "return", value |-> fields]
Raised(exception, code, message) ==
    [kind |-> exception, value |-> [code |-> code, message |-> message]]

\* the success test of handle_processor_response
IsProcessorSuccessLenient(code) == code \in {"100", "111"}
IsProcessorSuccess(code) == code = "100"

\* '{}XXXXXX{}'.format(card_first_six_digits, card_last_four_digits)
MaskedCardNumberUnmasked(first_six, last_four) == first_six \o last_four
MaskedCardNumber(first_six, last_four) == first_six \o "XXXXXX" \o last_four

\* PayTabs.handle_processor_response
HandleProcessorResponse(resp) ==
    IF resp.response_code = NoKey
    THEN Raised("KeyError", NoKey, "response_code")
    ELSE IF ~IsProcessorSuccess(resp.response_code)
    THEN Raised("PayTabsException", NoKey,
                "PayTabs raised an error when trying to process the payment")
    ELSE Returned(
           [transaction_id |-> resp.transaction_id,
            total |-> resp.amount,
            currency |-> resp.currency,
            card_number |->
                MaskedCardNumber(Get(resp, "card_first_six_digits", "XXXXXX"),
                                 Get(resp, "card_last_four_digits", "XXXX")),
            card_type |-> resp.card_brand])

\* pycountry.countries.get(alpha_2=...).alpha_3 ; NoKey when the lookup gives None
Alpha3(alpha_2) ==
    CASE alpha_2 = "SA" -> "SAU"
      [] alpha_2 = "EG" -> "EGY"
      [] OTHER -> NoKey

\* the success test of get_transaction_parameters
IsPayPageCreated(code) == code = "4012"

\* PayTabs.get_transaction_parameters for a buyer whose account has `country`,
\* when the create_pay_page call gives `gateway`; http_calls counts the calls made
GetTransactionParameters(country, gateway) ==
    IF country = NoKey \/ country = ""
    THEN [http_calls |-> 0,
          result |-> Raised("PayTabsException", NoKey,
                            "Country must be set in user account settings")]
    ELSE IF Alpha3(country) = NoKey
    THEN [http_calls |-> 0, result |-> Raised("AttributeError", NoKey, "alpha_3")]
    ELSE IF gateway.transport # "ok"
    THEN [http_calls |-> 1, result |-> Raised("RequestException", NoKey, gateway.transport)]
    ELSE IF ~IsPayPageCreated(gateway.response_code)
    THEN IF gateway.response_code = NoKey
         THEN [http_calls |-> 1, result |-> Raised("KeyError", NoKey, "response_code")]
         ELSE IF gateway.result = NoKey
         THEN [http_calls |-> 1, result |-> Raised("KeyError", NoKey, "result")]
         ELSE [http_calls |-> 1,
               result |-> Raised("PayTabsException", gateway.response_code, gateway.result)]
    ELSE [http_calls |-> 1,
          result |-> Returned([payment_page_url |-> gateway.payment_url])]

----------------------------------------------------------------------------
(* paytabs/views.py: the inputs of a notification *)

\* request.POST.get('payment_reference')
PaymentReferences == {NoKey, "PR-1"}

\* the JSON bodies the verify_payment call may return
VerificationBodies ==
    [response_code : {"100", "111", "481", NoKey},
     reference_no : ReferenceNumbers \cup {NoKey},
     transaction_id : {"T1", NoKey},
     amount : {"49.00"},
     currency : {"USD"},
     card_first_six_digits : {"411111", NoKey},
     card_last_four_digits : {"1111", NoKey},
     card_brand : {"Visa"}]

\* what _verify_response gives: a body, or an exception of requests.post or
\* of response.json()
VerifyOutcomes ==
    [raises : {FALSE}, body : VerificationBodies]
        \cup [raises : {TRUE}, body : {EmptyDict}]

\* the row record_processor_response appends
AuditRecordWithoutTransaction(payload, txn, b) ==
    [payload |-> payload, transaction_id |-> UnknownTransaction, basket |-> b]
AuditRecord(payload, txn, b) ==
    [payload |-> payload, transaction_id |-> txn, basket |-> b]

\* payment_reference is None
IsMissingUnchecked(payment_reference) == FALSE
IsMissing(payment_reference) == payment_reference = NoKey

\* the atomic block left by an exception undoes its writes
RollbackKeepingWrites(written, saved) == written
Rollback(written, saved) == saved

\* where post() goes when the atomic block is left
AfterAtomicSwallowing(hasRaised) == "create_order"
AfterAtomic(hasRaised) == IF hasRaised THEN "done" ELSE "create_order"

Count(seq, e) == Cardinality({i \in 1..Len(seq) : seq[i] = e})
Has(seq, e) == \E i \in 1..Len(seq) : seq[i] = e
Precedes(seq, a, b) ==
    \A j \in 1..Len(seq) : seq[j] = b => \E i \in 1..(j - 1) : seq[i] = a

Init ==
    /\ pc = "idle"
    /\ POST = [payment_reference |-> NoKey]
    /\ transaction_id = UnknownTransaction
    /\ basket = NoBasket
    /\ verification_data = EmptyDict
    /\ exit = "none"
    /\ raised = FALSE
    /\ savepoint = {}
    /\ response = "none"
    /\ events = <<>>
    /\ audit = <<>>
    /\ payments = {}
    /\ orders = {}
    /\ received = 0
    /\ call = [op |-> "none"]

\* post(), lines 80-87: the locals are set and payment_reference is read
Receive(payment_reference) ==
    /\ pc \in {"idle", "done"}
    /\ received < MaxNotifications
    /\ received' = received + 1
    /\ POST' = [payment_reference |-> payment_reference]
    /\ transaction_id' = UnknownTransaction
    /\ basket' = NoBasket
    /\ verification_data' = EmptyDict
    /\ raised' = FALSE
    /\ response' = "none"
    /\ events' = <<>>
    /\ IF IsMissing(payment_reference)
       THEN exit' = "return_error" /\ pc' = "finally"
       ELSE exit' = "none" /\ pc' = "verify"
    /\ UNCHANGED <<savepoint, audit, payments, orders, call>>

\* post(), lines 90-97: the verify call and the test of its response code
Verify(outcome) ==
    /\ pc = "verify"
    /\ events' = Append(events, "verify")
    /\ IF outcome.raises
       THEN /\ exit' = "raise"
            /\ pc' = "finally"
            /\ UNCHANGED verification_data
       ELSE /\ verification_data' = outcome.body
            /\ IF outcome.body.response_code = NoKey
               THEN exit' = "raise" /\ pc' = "finally"              \* KeyError
               ELSE IF outcome.body.response_code \notin PAYTABS_SUCCESS_CODES
               THEN exit' = "return_error" /\ pc' = "finally"
               ELSE exit' = "none" /\ pc' = "resolve"
    /\ UNCHANGED <<POST, transaction_id, basket, raised, savepoint, response,
                   audit, payments, orders, received, call>>

\* post(), lines 98-104: the basket is resolved and the transaction id read
Resolve ==
    /\ pc = "resolve"
    /\ pc' = "finally"
    /\ IF verification_data.reference_no = NoKey
       THEN /\ exit' = "raise"                                      \* KeyError
            /\ UNCHANGED <<basket, transaction_id, events>>
       ELSE LET b == GetBasket(BasketIdOf(verification_data.reference_no))
            IN  /\ basket' = b
                /\ events' = Append(events, "get_basket")
                /\ IF verification_data.transaction_id = NoKey
                   THEN /\ exit' = "raise"                          \* KeyError
                        /\ UNCHANGED transaction_id
                   ELSE /\ transaction_id' = verification_data.transaction_id
                        /\ exit' = IF b = NoBasket THEN "return_error" ELSE "none"
    /\ UNCHANGED <<POST, verification_data, raised, savepoint, response,
                   audit, payments, orders, received, call>>

\* post(), lines 105-108: the finally clause records the processor response,
\* then the pending return or exception of the try block takes effect
Finally ==
    /\ pc = "finally"
    /\ audit' = Append(audit, AuditRecord(POST, transaction_id, basket))
    /\ events' = Append(events, "record")
    /\ CASE exit = "return_error" -> response' = "redirect_error" /\ pc' = "done"
         [] exit = "raise" -> response' = "exception" /\ pc' = "done"
         [] OTHER -> response' = response /\ pc' = "atomic"
    /\ UNCHANGED <<POST, transaction_id, basket, verification_data, exit, raised,
                   savepoint, payments, orders, received, call>>

\* post(), lines 111-113: handle_payment inside transaction.atomic(); the
\* host's handle_payment hands the verification data to
\* handle_processor_response and records the payment it returns
HandlePayment(recorded) ==
    /\ pc = "atomic"
    /\ pc' = "atomic_exit"
    /\ savepoint' = payments
    /\ events' = Append(events, "handle_payment")
    /\ LET handled == HandleProcessorResponse(verification_data)
       IN  IF handled.kind # "return"
           THEN raised' = TRUE /\ UNCHANGED payments
           ELSE /\ payments' = payments \cup
                       {[basket |-> basket,
                         transaction_id |-> handled.value.transaction_id,
                         card_number |-> handled.value.card_number]}
                /\ raised' = ~recorded
    /\ UNCHANGED <<POST, transaction_id, basket, verification_data, exit, response,
                   audit, orders, received, call>>

\* post(), lines 114-129: the atomic block is left, by commit or by the
\* re-raised exception, which the outer handler turns into the error redirect
AtomicExit ==
    /\ pc = "atomic_exit"
    /\ pc' = AfterAtomic(raised)
    /\ IF raised
       THEN payments' = Rollback(payments, savepoint) /\ response' = "redirect_error"
       ELSE UNCHANGED <<payments, response>>
    /\ UNCHANGED <<POST, transaction_id, basket, verification_data, exit, raised,
                   savepoint, events, audit, orders, received, call>>

\* post(), line 130
CreateOrder(created) ==
    /\ pc = "create_order"
    /\ events' = Append(events, "create_order")
    /\ IF created
       THEN orders' = orders \cup {basket} /\ pc' = "receipt" /\ UNCHANGED response
       ELSE response' = "exception" /\ pc' = "done" /\ UNCHANGED orders
    /\ UNCHANGED <<POST, transaction_id, basket, verification_data, exit, raised,
                   savepoint, audit, payments, received, call>>

\* post(), lines 131-135
Receipt(computed) ==
    /\ pc = "receipt"
    /\ pc' = "done"
    /\ response' = IF computed THEN "redirect_receipt" ELSE "exception"
    /\ UNCHANGED <<POST, transaction_id, basket, verification_data, exit, raised,
                   savepoint, events, audit, payments, orders, received, call>>

Next ==
    \/ \E r \in PaymentReferences : Receive(r)
    \/ \E o \in VerifyOutcomes : Verify(o)
    \/ Resolve
    \/ Finally
    \/ \E ok \in BOOLEAN : HandlePayment(ok)
    \/ AtomicExit
    \/ \E ok \in BOOLEAN : CreateOrder(ok)
    \/ \E ok \in BOOLEAN : Receipt(ok)

Spec == Init /\ [][Next]_vars

----------------------------------------------------------------------------
(* paytabs/processors.py: the processor functions applied to bounded inputs *)

\* account_details.get('country')
Countries == {NoKey, "", "SA", "EG", "ZZ"}

\* what the create_pay_page call gives: a JSON body, or an exception
PayPageOutcomes ==
    [transport : {"ok"},
     response_code : {"4012", "4001", "4002", NoKey},
     result : {"Invalid secret key", NoKey},
     payment_url : {"https://www.paytabs.com/pay/1", NoKey}]
        \cup [transport : {"ConnectionError"}, response_code : {NoKey},
              result : {NoKey}, payment_url : {NoKey}]

\* the responses handle_processor_response may be given
ProcessorResponses ==
    [response_code : {"100", "111", "481", NoKey},
     reference_no : {OrderNumber(1)},
     transaction_id : {"T1", NoKey},
     amount : {"49.00", NoKey},
     currency : {"USD"},
     card_first_six_digits : {"411111", NoKey},
     card_last_four_digits : {"1111", NoKey},
     card_brand : {"Visa", NoKey}]

CallGetTransactionParameters(country, gateway) ==
    /\ call' = [op |-> "get_transaction_parameters",
                country |-> country,
                gateway |-> gateway,
                out |-> GetTransactionParameters(country, gateway)]
    /\ UNCHANGED viewVars

CallHandleProcessorResponse(resp) ==
    /\ call' = [op |-> "handle_processor_response",
                response |-> resp,
                out |-> HandleProcessorResponse(resp)]
    /\ UNCHANGED viewVars

NextProcessor ==
    \/ \E c \in Countries, g \in PayPageOutcomes : CallGetTransactionParameters(c, g)
    \/ \E r \in ProcessorResponses : CallHandleProcessorResponse(r)

SpecProcessor == Init /\ [][NextProcessor]_vars

----------------------------------------------------------------------------
(* Properties of the notification handler, checked under Spec *)

\* the request is past the finally clause of the first try block
PastFinally == pc \in {"atomic", "atomic_exit", "create_order", "receipt", "done"}

\* the row recorded for the notification being handled
LastAudit == audit[Len(audit)]

\* the basket the verified reference number stands for, NoBasket if none
ResolvedBasket == GetBasket(BasketIdOf(verification_data.reference_no))

\* C1: create_order is invoked only if the verified response code is '100'
\* or '111', the verified reference number resolved to an existing basket,
\* and handle_payment ran once, inside the atomic block, before create_order
\* and without raising (its payment record is committed).
C1_OrderOnlyAfterVerifiedPayment ==
    Has(events, "create_order") =>
        /\ verification_data.response_code \in {"100", "111"}
        /\ basket \in Baskets
        /\ basket = ResolvedBasket
        /\ Count(events, "handle_payment") = 1
        /\ Precedes(events, "handle_payment", "create_order")
        /\ ~raised
        /\ \E p \in payments : p.basket = basket

C1_Witness ==
    /\ pc = "receipt"
    /\ Has(events, "create_order")
    /\ basket \in orders

\* C2 as stated: a notification without payment_reference is answered with
\* the error redirect, after zero verify calls and zero audit records.
C2_MissingReferenceWritesNoAudit ==
    (pc = "done" /\ POST.payment_reference = NoKey) =>
        /\ response = "redirect_error"
        /\ Count(events, "verify") = 0
        /\ Count(events, "record") = 0

\* C2 amended: a notification without payment_reference is answered with the
\* error redirect, after zero verify calls and exactly one audit record, which
\* carries the raw POST payload, the transaction id 'Unknown' and no basket.
C2_MissingReferenceWritesOneAudit ==
    (pc = "done" /\ POST.payment_reference = NoKey) =>
        /\ response = "redirect_error"
        /\ Count(events, "verify") = 0
        /\ Count(events, "record") = 1
        /\ Len(audit) = received
        /\ LastAudit = [payload |-> POST, transaction_id |-> "Unknown", basket |-> NoBasket]

C2_Witness ==
    /\ pc = "done"
    /\ POST.payment_reference = NoKey
    /\ response = "redirect_error"
    /\ Len(audit) = received

\* C3: every handled notification writes exactly one audit record, on every
\* way out of steps 1-3: the record holds the raw POST payload, the basket if
\* one was resolved and None otherwise, and the verified transaction id if it
\* was read and 'Unknown' otherwise.
C3_ExactlyOneAuditRecord ==
    /\ Len(audit) = received - (IF pc \in {"verify", "resolve", "finally"} THEN 1 ELSE 0)
    /\ Count(events, "record") = (IF PastFinally THEN 1 ELSE 0)
    /\ PastFinally =>
        /\ LastAudit.payload = POST
        /\ LastAudit.basket =
              (IF Has(events, "get_basket") THEN ResolvedBasket ELSE NoBasket)
        /\ LastAudit.transaction_id =
              (IF Has(events, "get_basket") /\ verification_data.transaction_id # NoKey
               THEN verification_data.transaction_id
               ELSE "Unknown")

\* a rejected code: the response names a transaction id, which was never read
C3_Witness ==
    /\ pc = "done"
    /\ exit = "return_error"
    /\ verification_data.response_code = "481"
    /\ verification_data.transaction_id = "T1"
    /\ LastAudit.transaction_id = "Unknown"
    /\ Len(audit) = 2

\* C4: post() always answers with a redirect, to the receipt page or to the
\* error page; no failure of any step makes an exception leave post().
C4_AlwaysRedirects ==
    pc = "done" => response \in {"redirect_receipt", "redirect_error"}

\* C5: the audit record is written before the atomic block is entered and
\* outside it: when handle_payment raises, the block's writes are rolled back,
\* the audit record stays, create_order is not invoked and the answer is the
\* error redirect.
C5_AuditOutlivesRollback ==
    /\ pc \in {"atomic", "atomic_exit"} =>
        /\ Len(audit) = received
        /\ LastAudit.payload = POST
        /\ LastAudit.basket = basket
    /\ Precedes(events, "record", "handle_payment")
    /\ (pc = "done" /\ raised) =>
        /\ payments = savepoint
        /\ Len(audit) = received
        /\ LastAudit.basket = basket
        /\ basket \in Baskets
        /\ ~Has(events, "create_order")
        /\ response = "redirect_error"

\* a recorded response with no order
C5_Witness ==
    /\ pc = "done"
    /\ raised
    /\ verification_data.response_code = "100"
    /\ LastAudit.basket = basket
    /\ basket \notin orders
    /\ response = "redirect_error"

\* C6: a notification that carries a payment_reference makes exactly one
\* verify call, before basket resolution and before order placement; when the
\* verified code is outside {'100','111'}, the basket is not resolved,
\* handle_payment and create_order are not invoked, and the answer is the
\* error redirect.
C6_VerifiedOnceBeforeTrust ==
    /\ (POST.payment_reference # NoKey /\ pc \notin {"idle", "verify"}) =>
            Count(events, "verify") = 1
    /\ Precedes(events, "verify", "get_basket")
    /\ Precedes(events, "verify", "handle_payment")
    /\ Precedes(events, "verify", "create_order")
    /\ (Has(events, "verify") /\ verification_data.response_code \notin {"100", "111", NoKey}) =>
        /\ ~Has(events, "get_basket")
        /\ ~Has(events, "handle_payment")
        /\ ~Has(events, "create_order")
        /\ basket = NoBasket
        /\ pc \in {"finally", "done"}
        /\ pc = "done" => response = "redirect_error"

C6_Witness ==
    /\ pc = "done"
    /\ verification_data.response_code = "481"
    /\ Count(events, "verify") = 1
    /\ response = "redirect_error"

\* C7: when the verified reference number resolves to a basket id that is
\* empty, non-numeric or names no basket, _get_basket gives None and post()
\* answers with the error redirect, writes one audit record with no basket
\* and invokes neither handle_payment nor create_order.
C7_UnresolvedBasketRedirects ==
    (pc = "done" /\ Has(events, "get_basket") /\ ResolvedBasket = NoBasket) =>
        /\ response = "redirect_error"
        /\ Count(events, "record") = 1
        /\ LastAudit.basket = NoBasket
        /\ ~Has(events, "handle_payment")
        /\ ~Has(events, "create_order")

----------------------------------------------------------------------------
(* Properties of the processor functions, checked under SpecProcessor *)

\* C8: for a buyer with a valid country, get_transaction_parameters makes
\* exactly one create-pay-page call and returns a URL only when the response
\* code is '4012'; every other response (another code, with or without a
\* result message, or no code) raises PayTabsException carrying the code.
C8_PayPageErrorsRaiseGatewayError ==
    (call.op = "get_transaction_parameters" /\ Alpha3(call.country) # NoKey) =>
        /\ call.out.http_calls = 1
        /\ call.out.result.kind = "return" => call.gateway.response_code = "4012"
        /\ (call.gateway.transport = "ok" /\ call.gateway.response_code # "4012") =>
            /\ call.out.result.kind = "PayTabsException"
            /\ call.out.result.value.code = call.gateway.response_code

\* C9: handle_processor_response raises PayTabsException for every response
\* code other than '100'; for '100' it returns transaction id, total,
\* currency, card type and the masked card number: first six + 'XXXXXX' +
\* last four, with 'XXXXXX' and 'XXXX' standing in for absent digit fields.
C9_MaskedCardNumber ==
    call.op = "handle_processor_response" =>
        LET r == call.response
            first == IF r.card_first_six_digits = NoKey THEN "XXXXXX" ELSE "411111"
            last == IF r.card_last_four_digits = NoKey THEN "XXXX" ELSE "1111"
        IN  /\ r.response_code \in {"111", "481"} => call.out.kind = "PayTabsException"
            /\ r.response_code = "100" =>
                /\ call.out.kind = "return"
                /\ call.out.value.transaction_id = r.transaction_id
                /\ call.out.value.total = r.amount
                /\ call.out.value.currency = r.currency
                /\ call.out.value.card_type = r.card_brand
                /\ call.out.value.card_number = first \o "XXXXXX" \o last
                /\ Len(call.out.value.card_number) = 16
                /\ (r.card_first_six_digits # NoKey /\ r.card_last_four_digits # NoKey)
                        => call.out.value.card_number = "411111XXXXXX1111"
                /\ (r.card_first_six_digits = NoKey /\ r.card_last_four_digits = NoKey)
                        => call.out.value.card_number = "XXXXXXXXXXXXXXXX"

C9_Witness ==
    /\ call.op = "handle_processor_response"
    /\ call.response.response_code = "100"
    /\ call.response.card_first_six_digits = NoKey
    /\ call.response.card_last_four_digits = "1111"
    /\ call.out.value.card_number = "XXXXXXXXXXXX1111"

====
